---- MODULE Spec2Model ----
(***************************************************************************)
(* Model of the chat backend's session multiplexer:                        *)
(*   src/agent.py  AgentSession  (queue-fed prompt stream, agent task)     *)
(*   src/main.py   Session       (drain loop, broadcast, subscribers)      *)
(*   src/main.py   ws            (one handler per WebSocket connection)    *)
(* asyncio is cooperative: a step of the model is what one task executes   *)
(* between two suspension points (awaits that may yield to the loop).      *)
(***************************************************************************)
EXTENDS Naturals, Integers, Sequences, FiniteSets, TLC

\* ---------------------------------------------------------------- bounds
NumWs == 2          \* WebSocket connections (handles) that exist
MaxSends == 1       \* chat messages the connections send over the run
MaxSubs == 1        \* subscribe messages the connections send over the run
MaxEvents == 1      \* items the agent call yields under a Session
MaxClose == 1       \* Session.close() calls over the run
MaxPrompts == 2     \* texts given to an AgentSession used on its own
MaxItems == 2       \* items the agent call yields to such an AgentSession
MaxDirectClose == 2 \* close() calls on such an AgentSession
MaxDelete == 2      \* delete_chat calls over the run
MaxOverlap == 2     \* send_message calls where calls overlap

WS == 1..NumWs
Texts == 1..MaxOverlap

\* ---------------------------------------------------------------- state
VARIABLES
    \* AgentSession (src/agent.py)
    input_queue,    \* _input_queue: texts and the close-sentinel
    output_queue,   \* _output_queue: events and the end-of-stream sentinel
    task,           \* _task: "none" | "pending" | "running" | "done"
    task_cancel,    \* cancel() was requested on _task and not yet delivered
    closed,         \* _closed
    pstream,        \* the _stream() generator: "idle" | "waiting" | "ended"
    delivered,      \* texts the prompt stream has yielded to the agent call
    \* Session (src/main.py)
    subscribers,    \* _subscribers
    listening,      \* _listening task: "none" | "pending" | "running" | "done"
    listen_cancel,  \* cancel() was requested on _listening, not yet delivered
    is_listening,   \* _is_listening
    lpc,            \* where _listen is suspended
    lmsg,           \* the output event _listen is working on
    lb,             \* the _broadcast call made by _listen
    ub,             \* the detached _broadcast tasks of send_message, by text
    lastb,          \* the _broadcast call that ended last, as it ended
    \* ws handlers and their peers
    conn,           \* per connection: "open" | "closed"
    hpc,            \* per handler: "recv" | "history" | "persist" | "ended"
    htext,          \* per handler: the text its send_message call carries
    last,           \* per connection: the payload its peer received last
    seen,           \* per connection: the highest agent event number received
    \* persistence collaborator
    history,        \* the conversation's persisted messages, in order
    \* bookkeeping of the run
    submitted,      \* texts in the order send_message enqueued them
    nsend,          \* texts handed to send_message so far
    nsub,           \* subscribe messages received so far
    nyield,         \* items the agent call has yielded so far
    nemit,          \* events put on the output queue so far
    ncalls,         \* _run_query tasks created so far
    nsentinel,      \* end-of-stream sentinels put on the output queue
    nclose,         \* close() calls so far
    consumer,       \* a direct get_output_stream() loop: "none" | "iter" | "done"
    consumed,       \* events that direct loop received
    \* the registry (src/main.py `sessions`) and the chat store, for one chat id
    sessions,       \* the Session registered under the id: 0 (no entry), 1, 2
    stored,         \* the store holds the chat
    dpc,            \* delete_chat: "idle" | "found" | "missing" (store answered)
    hsess,          \* per handler: the Session get_session returned to it
                    \* (1, 2, or Other for the one of the other chat id)
    subscribers2,   \* _subscribers of the second Session
    task2,          \* _agent._task of the second Session
    listening2,     \* _listening of the second Session
    nsend2,         \* chat messages handled on the second Session
    ndelete,        \* delete_chat calls so far
    subscribersB,   \* _subscribers of the Session of another chat id
    nlisten,        \* _listen tasks created for the first Session so far
    yielded         \* items the agent call yielded while the session was open

queue_vars == <<input_queue, output_queue>>
task_vars == <<task, task_cancel>>
prompt_vars == <<pstream, delivered>>
agent_vars == <<queue_vars, task_vars, closed, prompt_vars>>
listen_vars == <<listening, listen_cancel, is_listening, lpc, lmsg, lb>>
session_vars == <<subscribers, listen_vars, ub, lastb>>
peer_vars == <<last, seen>>
ws_vars == <<conn, hpc, htext, peer_vars>>
bound_vars == <<nsend, nsub, nyield, nclose>>
emit_vars == <<nemit, nsentinel>>
direct_vars == <<consumer, consumed>>
count_vars == <<submitted, bound_vars, emit_vars, ncalls, direct_vars>>
second_vars == <<subscribers2, task2, listening2, nsend2>>
other_vars == <<subscribersB>>
registry_vars ==
    <<sessions, stored, dpc, hsess, second_vars, ndelete, other_vars,
    nlisten, yielded>>
vars == <<agent_vars, session_vars, ws_vars, history, count_vars, registry_vars>>

\* ---------------------------------------------------------------- values
\* The sentinel both queues use (None in the source).
None == [type |-> "None", n |-> 0, toolName |-> "", message |-> <<>>, success |-> TRUE]

\* A payload of type t numbered n. Texts are numbered in the order they are
\* handed to send_message, agent events in the order they are emitted.
Payload(t, n) == [type |-> t, n |-> n, toolName |-> "", message |-> <<>>, success |-> TRUE]

\* A user text in the input queue.
Text(n) == Payload("text", n)

\* AGENT_STATUS_BY_TOOL.get(tool_name, f"Using {tool_name}")
AgentStatusMessage(tool_name) ==
    CASE tool_name = "WebSearch" -> <<"Searching the web">>
      [] tool_name = "WebFetch" -> <<"Fetching a page">>
      [] tool_name = "Read" -> <<"Reading a file">>
      [] tool_name = "Write" -> <<"Writing a file">>
      [] tool_name = "Edit" -> <<"Editing a file">>
      [] tool_name = "Bash" -> <<"Running a command">>
      [] tool_name = "Glob" -> <<"Searching for files">>
      [] tool_name = "Grep" -> <<"Searching in files">>
      [] OTHER -> <<"Using", tool_name>>

\* The agent_status payload _listen builds for a tool_use event.
StatusPayload(msg) ==
    [Payload("agent_status", 0) EXCEPT !.message = AgentStatusMessage(msg.toolName)]

\* The error payload _listen broadcasts from its except clause.
ListenErrorPayload == Payload("error", 0)

\* The reply of the ws handler to a message of unknown type.
InvalidFormatPayload ==
    [Payload("error", 0) EXCEPT !.message = <<"Invalid message format">>]

\* The payload of the broadcast task send_message creates for text n.
UserMessagePayload(n) == Payload("user_message", n)

\* The types of the events the agent driver emits for what the call yields.
AgentEventTypes == {"assistant_message", "tool_use", "result"}

\* A _broadcast call: st is "idle" (none), "pending" (its task has not run
\* yet), "sending" (suspended in ws.send_json to cur), "returned" or "raised";
\* used is the set size its iterator recorded, dead its list of failed
\* sinks, start the subscriber set it began with, tried the sinks it sent to,
\* left the subscriber set when it ended, by the task that made the call.
NoBroadcast ==
    [st |-> "idle", by |-> "", payload |-> None, cur |-> 0, used |-> 0,
     dead |-> {}, start |-> {}, tried |-> {}, left |-> {}]

\* ------------------------------------------------- the external agent call
TextBlock == [b |-> "text", name |-> ""]
ToolUseBlock(name) == [b |-> "tool", name |-> name]
OtherBlock == [b |-> "other", name |-> ""]

AssistantMessage(blocks) == [kind |-> "assistant", blocks |-> blocks, is_error |-> FALSE]
ResultMessage(is_error) == [kind |-> "result", blocks |-> <<>>, is_error |-> is_error]
OtherMessage == [kind |-> "other", blocks |-> <<>>, is_error |-> FALSE]

\* The items the agent call is let to yield to an AgentSession on its own.
AgentMsgs ==
    { AssistantMessage(<<TextBlock>>),
      AssistantMessage(<<ToolUseBlock("Bash")>>),
      AssistantMessage(<<OtherBlock, ToolUseBlock("Computer")>>),
      ResultMessage(FALSE),
      OtherMessage }

\* The items it yields under a Session: one message of two blocks, one tool
\* use without a status phrase of its own, one result.
SessionMsgs ==
    { AssistantMessage(<<TextBlock, ToolUseBlock("Bash")>>),
      AssistantMessage(<<ToolUseBlock("Computer")>>),
      ResultMessage(FALSE) }

\* ------------------------------------------------------- faulty variants
\* Deviations from the source, one per guarded property: a property that
\* depends on the code it is stated about fails once that code is replaced
\* by its variant.

\* _input_queue as a stack: the newest text is taken first.
InputPutFront(q, x) == <<x>> \o q

\* The events of one item are put in the reverse order.
OutputPutReversed(q, evs) == q \o [i \in 1..Len(evs) |-> evs[Len(evs) + 1 - i]]

\* start() that creates a task again once the earlier one is done.
StartCreatesAgain(t) == t \in {"none", "done"}

\* An except clause that reports the exception whatever _closed says.
NeverSuppressed(c) == FALSE

\* Session.close() that leaves the drain task alone.
NeverCancelsListen(l) == FALSE

\* A store whose add_message takes a message for a chat it does not hold.
AddMessageAcceptsAnyChat(has_chat) == TRUE

\* send_message that tests _is_listening alone before it creates the drain
\* task.
CreatesUnlessListening(isl, l) == ~isl

\* ---------------------------------------------------- AgentSession helpers
\* asyncio.Queue.put_nowait on _input_queue
InputPut(q, x) == Append(q, x)

\* asyncio.Queue.put_nowait on _output_queue, once per event of evs
OutputPut(q, evs) == q \o evs

\* asyncio.Queue.get: the item taken, and the queue left
QueueHead(q) == Head(q)
QueueRest(q) == Tail(q)

\* The events _run_query puts for the content blocks of an AssistantMessage,
\* numbered from n + 1.
RECURSIVE ClassifyBlocks(_, _)
ClassifyBlocks(blocks, n) ==
    IF blocks = <<>> THEN <<>>
    ELSE LET blk == Head(blocks) IN
         IF blk.b = "text"
         THEN <<Payload("assistant_message", n + 1)>>
              \o ClassifyBlocks(Tail(blocks), n + 1)
         ELSE IF blk.b = "tool"
         THEN <<[Payload("tool_use", n + 1) EXCEPT !.toolName = blk.name]>>
              \o ClassifyBlocks(Tail(blocks), n + 1)
         ELSE ClassifyBlocks(Tail(blocks), n)

\* Faulty variant: a result event that is always reported as a success.
ClassifyResultAsSuccess(msg, n) ==
    IF msg.kind = "assistant" THEN ClassifyBlocks(msg.blocks, n)
    ELSE IF msg.kind = "result" THEN <<Payload("result", n + 1)>>
    ELSE <<>>

\* The events _run_query puts for one item the agent call yields.
Classify(msg, n) ==
    IF msg.kind = "assistant" THEN ClassifyBlocks(msg.blocks, n)
    ELSE IF msg.kind = "result"
    THEN <<[Payload("result", n + 1) EXCEPT !.success = ~msg.is_error]>>
    ELSE <<>>

\* start(): `if self._task is None`
StartCreates(t) == t = "none"

\* _run_query's except clause: `if not self._closed` guards the error event
ErrorSuppressed(c) == c

\* close(): `if self._task and not self._task.done()` guards cancel()
CloseCancels(t) == t \in {"pending", "running"}

\* start()
DoStart ==
    /\ task' = IF StartCreates(task) THEN "pending" ELSE task
    /\ ncalls' = IF StartCreates(task) THEN ncalls + 1 ELSE ncalls

\* AgentSession.send_message(content), content being text number n
DoAgentSend(n) ==
    /\ DoStart
    /\ input_queue' = InputPut(input_queue, Text(n))
    /\ submitted' = Append(submitted, n)

\* AgentSession.close()
DoAgentClose ==
    /\ closed' = TRUE
    /\ input_queue' = InputPut(input_queue, None)
    /\ task_cancel' = (task_cancel \/ CloseCancels(task))
    /\ nclose' = nclose + 1

\* _run_query ends: the events evs, then
\* `finally: self._output_queue.put_nowait(None)`
DoFinish(evs) ==
    /\ output_queue' = OutputPut(output_queue, evs \o <<None>>)
    /\ nemit' = nemit + Len(evs)
    /\ nsentinel' = nsentinel + 1
    /\ task' = "done"
    /\ task_cancel' = FALSE

\* ------------------------------------------------ AgentSession task steps
\* The task's first step: _run_query builds the options, calls query() with a
\* fresh prompt stream and suspends in the async for.
AgentFirstStep ==
    /\ task = "pending" /\ ~task_cancel
    /\ task' = "running"
    /\ UNCHANGED <<queue_vars, task_cancel, closed, prompt_vars,
                   session_vars, ws_vars, history, count_vars>>
    /\ UNCHANGED registry_vars

\* A task cancelled before its first step: asyncio throws CancelledError into
\* the coroutine before any of its body (the try/finally included) has run.
AgentCancelledUnstarted ==
    /\ task = "pending" /\ task_cancel
    /\ task' = "done"
    /\ task_cancel' = FALSE
    /\ UNCHANGED <<queue_vars, closed, prompt_vars,
                   session_vars, ws_vars, history, count_vars>>
    /\ UNCHANGED registry_vars

\* The agent call asks the prompt stream for its next item: `while not
\* self._closed`, then `await self._input_queue.get()`.
PromptPull ==
    /\ task = "running" /\ pstream = "idle"
    /\ IF closed
       THEN pstream' = "ended" /\ UNCHANGED <<input_queue, delivered>>
       ELSE IF input_queue = <<>>
       THEN pstream' = "waiting" /\ UNCHANGED <<input_queue, delivered>>
       ELSE /\ input_queue' = QueueRest(input_queue)
            /\ IF QueueHead(input_queue) = None
               THEN pstream' = "ended" /\ UNCHANGED delivered
               ELSE /\ pstream' = "idle"
                    /\ delivered' = Append(delivered, QueueHead(input_queue).n)
    /\ UNCHANGED <<output_queue, task_vars, closed,
                   session_vars, ws_vars, history, count_vars>>
    /\ UNCHANGED registry_vars

\* The prompt stream, suspended in get(), resumes with the item that arrived.
PromptResume ==
    /\ task = "running" /\ pstream = "waiting" /\ input_queue # <<>>
    /\ input_queue' = QueueRest(input_queue)
    /\ IF QueueHead(input_queue) = None
       THEN pstream' = "ended" /\ UNCHANGED delivered
       ELSE /\ pstream' = "idle"
            /\ delivered' = Append(delivered, QueueHead(input_queue).n)
    /\ UNCHANGED <<output_queue, task_vars, closed,
                   session_vars, ws_vars, history, count_vars>>
    /\ UNCHANGED registry_vars

\* The agent call yields msg, the call being let to yield maxy items:
\* `if self._closed: break`, else the item is classified.
AgentYield(msg, maxy) ==
    /\ task = "running" /\ ~task_cancel
    /\ nyield < maxy
    /\ nyield' = nyield + 1
    /\ IF closed
       THEN DoFinish(<<>>) /\ UNCHANGED yielded
       ELSE /\ output_queue' = OutputPut(output_queue, Classify(msg, nemit))
            /\ nemit' = nemit + Len(Classify(msg, nemit))
            /\ yielded' = Append(yielded, msg)
            /\ UNCHANGED <<task_vars, nsentinel>>
    /\ UNCHANGED <<input_queue, closed, prompt_vars,
                   session_vars, ws_vars, history,
                   submitted, nsend, nsub, nclose, ncalls, direct_vars>>
    /\ UNCHANGED <<sessions, stored, dpc, hsess, second_vars, ndelete,
                   other_vars, nlisten>>

\* The agent call raises an exception (not a cancellation).
AgentRaise ==
    /\ task = "running" /\ ~task_cancel
    /\ IF ErrorSuppressed(closed)
       THEN DoFinish(<<>>)
       ELSE DoFinish(<<Payload("error", nemit + 1)>>)
    /\ UNCHANGED <<input_queue, closed, prompt_vars,
                   session_vars, ws_vars, history,
                   submitted, bound_vars, ncalls, direct_vars>>
    /\ UNCHANGED registry_vars

\* The agent call's stream ends.
AgentEnd ==
    /\ task = "running" /\ ~task_cancel
    /\ DoFinish(<<>>)
    /\ UNCHANGED <<input_queue, closed, prompt_vars,
                   session_vars, ws_vars, history,
                   submitted, bound_vars, ncalls, direct_vars>>
    /\ UNCHANGED registry_vars

\* The cancellation requested by close() reaches the suspended task. The agent
\* call lets CancelledError through (swallowed by _run_query), or fails with
\* another exception while it is torn down.
AgentCancelled(outcome) ==
    /\ task = "running" /\ task_cancel
    /\ IF outcome = "cancelled" \/ ErrorSuppressed(closed)
       THEN DoFinish(<<>>)
       ELSE DoFinish(<<Payload("error", nemit + 1)>>)
    /\ UNCHANGED <<input_queue, closed, prompt_vars,
                   session_vars, ws_vars, history,
                   submitted, bound_vars, ncalls, direct_vars>>
    /\ UNCHANGED registry_vars

\* The agent task and the call it drives, the call yielding up to maxy items
\* of msgs.
AgentStep(msgs, maxy) ==
    \/ AgentFirstStep
    \/ AgentCancelledUnstarted
    \/ \E msg \in msgs : AgentYield(msg, maxy)
    \/ AgentRaise
    \/ AgentEnd
    \/ \E outcome \in {"cancelled", "exception"} : AgentCancelled(outcome)

\* The agent call reads its prompt stream.
PromptStep ==
    \/ PromptPull
    \/ PromptResume

\* ------------------------------------- AgentSession driven directly (test.py)
\* agent.send_message(prompt)
DirectSend ==
    /\ nsend < MaxPrompts
    /\ nsend' = nsend + 1
    /\ DoAgentSend(nsend + 1)
    /\ UNCHANGED <<output_queue, task_cancel, closed, prompt_vars,
                   session_vars, ws_vars, history,
                   nsub, nyield, nclose, emit_vars, direct_vars>>
    /\ UNCHANGED registry_vars

\* agent.close()
DirectClose ==
    /\ nclose < MaxDirectClose
    /\ DoAgentClose
    /\ UNCHANGED <<output_queue, task, prompt_vars,
                   session_vars, ws_vars, history,
                   submitted, nsend, nsub, nyield, emit_vars, ncalls,
                   direct_vars>>
    /\ UNCHANGED registry_vars

\* `async for msg in self.agent.get_output_stream()`: the first __anext__ calls
\* start() and suspends in _output_queue.get().
ConsumerStart ==
    /\ consumer = "none"
    /\ consumer' = "iter"
    /\ DoStart
    /\ UNCHANGED <<queue_vars, task_cancel, closed, prompt_vars,
                   session_vars, ws_vars, history,
                   submitted, bound_vars, emit_vars, consumed>>
    /\ UNCHANGED registry_vars

\* get_output_stream takes the next item: None ends the iteration.
ConsumerGet ==
    /\ consumer = "iter" /\ output_queue # <<>>
    /\ output_queue' = QueueRest(output_queue)
    /\ IF QueueHead(output_queue) = None
       THEN consumer' = "done" /\ UNCHANGED consumed
       ELSE consumer' = "iter" /\ consumed' = Append(consumed, QueueHead(output_queue))
    /\ UNCHANGED <<input_queue, task_vars, closed, prompt_vars,
                   session_vars, ws_vars, history,
                   submitted, bound_vars, emit_vars, ncalls>>
    /\ UNCHANGED registry_vars

\* ------------------------------------------------------ Session._broadcast
Min(S) == CHOOSE x \in S : \A y \in S : x <= y
Max(a, b) == IF a >= b THEN a ELSE b

\* `for ws in self._subscribers`: the sinks the set iterator has still to
\* reach. A set is walked in the order of its table; handles are numbered in
\* that order, so the iterator at cur goes on to the larger members.
IterRest(subs, cur) == {w \in subs : w > cur}

\* The iterator's check on every step: "Set changed size during iteration".
IterFails(subs, used) == Cardinality(subs) # used

\* _broadcast(payload) called by task `by`, up to its first suspension: with
\* no subscriber it returns at once, else it is suspended in send_json to the
\* first one.
BStart(by, payload, subs) ==
    IF subs = {}
    THEN [NoBroadcast EXCEPT !.st = "returned", !.by = by]
    ELSE [st |-> "sending", by |-> by, payload |-> payload, cur |-> Min(subs),
          used |-> Cardinality(subs), dead |-> {}, start |-> subs,
          tried |-> {Min(subs)}, left |-> {}]

\* `except Exception: dead.append(ws)` after the send to b.cur ended
BSendDone(b, ok) == IF ok THEN b ELSE [b EXCEPT !.dead = @ \cup {b.cur}]

\* The loop goes on after a send: the iterator raises RuntimeError, or gives
\* the next sink, or is exhausted and the loop ends.
BAdvance(b, subs) ==
    IF IterFails(subs, b.used) THEN [b EXCEPT !.st = "raised"]
    ELSE IF IterRest(subs, b.cur) = {} THEN [b EXCEPT !.st = "returned"]
    ELSE [b EXCEPT !.cur = Min(IterRest(subs, b.cur)),
                   !.tried = @ \cup {Min(IterRest(subs, b.cur))}]

\* `for c in dead: self._subscribers.discard(c)`, reached when the loop ended
SubsAfter(b, subs) == IF b.st = "returned" THEN subs \ b.dead ELSE subs

\* ws.send_json(payload) to w: it can succeed only while the connection is
\* not known to be gone; a peer may go away at any time, which the server
\* learns by the send (or the receive) that fails.
SendMay(w, ok) == ok => conn[w] = "open"
ConnAfter(w, ok) == IF ok THEN conn ELSE [conn EXCEPT ![w] = "closed"]

\* The peer of w receives payload p.
Deliver(w, p) ==
    /\ last' = [last EXCEPT ![w] = p]
    /\ seen' = [seen EXCEPT ![w] = IF p.type \in AgentEventTypes
                                   THEN Max(@, p.n) ELSE @]

\* What is kept of a broadcast call that ended with the subscribers subs left.
Ended(b, subs) == [b EXCEPT !.payload = None, !.cur = 0, !.used = 0, !.left = subs]

\* What the task record of a detached broadcast holds once it has ended.
Finished(b) == [NoBroadcast EXCEPT !.st = b.st, !.by = b.by]

\* ---------------------------------------------------------- Session._listen
\* _wrap(msg): {**msg, "chatId": self.chat_id}; one conversation is modelled,
\* so the chatId is the same in every payload and is left out.
Wrap(msg) == msg

PhasePayload(phase, msg) ==
    IF phase = "status" THEN StatusPayload(msg)
    ELSE IF phase = "event" THEN Wrap(msg)
    ELSE ListenErrorPayload

\* _listen calls _broadcast for phase ("status", "event" or "error") and runs
\* on to its next suspension: [lpc, lb] is where it is then, fin says that
\* _listen has ended. With no subscriber the call returns at once: after the
\* status _listen goes on to the event, after the event to the next get(),
\* after the error it returns.
ListenBroadcast(phase, msg, subs) ==
    IF subs # {}
    THEN [lpc |-> phase, lb |-> BStart("listen", PhasePayload(phase, msg), subs),
          fin |-> FALSE]
    ELSE [lpc |-> IF phase = "error" THEN "none" ELSE "get",
          lb |-> NoBroadcast, fin |-> (phase = "error")]

\* _listen after its _broadcast call of phase ended as b (returned or raised)
\* with the subscribers subs left: a RuntimeError from the loop is caught by
\* `except Exception` unless it comes from the error broadcast itself.
ListenAfter(phase, b, msg, subs) ==
    IF b.st = "raised" /\ phase # "error" THEN ListenBroadcast("error", msg, subs)
    ELSE IF b.st = "returned" /\ phase = "status"
    THEN ListenBroadcast("event", msg, subs)
    ELSE IF b.st = "returned" /\ phase = "event"
    THEN [lpc |-> "get", lb |-> NoBroadcast, fin |-> FALSE]
    ELSE [lpc |-> "none", lb |-> NoBroadcast, fin |-> TRUE]

\* The listener moves to r.
ListenGoes(r) ==
    /\ lpc' = r.lpc
    /\ lb' = r.lb
    /\ lmsg' = IF r.lpc \in {"get", "none"} THEN None ELSE lmsg
    /\ listening' = IF r.fin THEN "done" ELSE listening

\* send_message: `if not self._is_listening and self._listening is None`
ListenCreates(isl, l) == ~isl /\ l = "none"

\* Session.close(): `if self._listening and not self._listening.done()`
CloseCancelsListen(l) == l \in {"pending", "running"}

\* The drain task's first step: `if self._is_listening: return`, else the
\* flag is set and get_output_stream() calls start() and suspends in get().
ListenFirstStep ==
    /\ listening = "pending" /\ ~listen_cancel
    /\ IF is_listening
       THEN listening' = "done" /\ UNCHANGED <<is_listening, lpc, task, ncalls>>
       ELSE /\ is_listening' = TRUE
            /\ listening' = "running"
            /\ lpc' = "get"
            /\ DoStart
    /\ UNCHANGED <<queue_vars, task_cancel, closed, prompt_vars,
                   subscribers, listen_cancel, lmsg, lb, ub, lastb,
                   ws_vars, history,
                   submitted, bound_vars, emit_vars, direct_vars>>
    /\ UNCHANGED registry_vars

\* The drain task cancelled before its first step never runs.
ListenCancelledUnstarted ==
    /\ listening = "pending" /\ listen_cancel
    /\ listening' = "done"
    /\ listen_cancel' = FALSE
    /\ UNCHANGED <<agent_vars, subscribers, is_listening, lpc, lmsg, lb, ub,
                   lastb, ws_vars, history, count_vars>>
    /\ UNCHANGED registry_vars

\* get_output_stream() gives the next item: the sentinel ends the loop, a
\* tool_use is preceded by its status broadcast, an assistant_message is
\* persisted by _wrap first, anything else is broadcast.
ListenGet ==
    /\ listening = "running" /\ ~listen_cancel
    /\ lpc = "get" /\ output_queue # <<>>
    /\ output_queue' = QueueRest(output_queue)
    /\ LET msg == QueueHead(output_queue) IN
       IF msg = None
       THEN /\ listening' = "done" /\ lpc' = "none"
            /\ UNCHANGED <<lmsg, lb>>
       ELSE IF msg.type = "assistant_message"
       THEN lpc' = "wrap" /\ lmsg' = msg /\ UNCHANGED <<lb, listening>>
       ELSE LET r == ListenBroadcast(IF msg.type = "tool_use" THEN "status"
                                     ELSE "event", msg, subscribers)
            IN /\ lpc' = r.lpc /\ lb' = r.lb
               /\ lmsg' = IF r.lpc = "get" THEN None ELSE msg
               /\ UNCHANGED listening
    /\ UNCHANGED <<input_queue, task_vars, closed, prompt_vars,
                   subscribers, listen_cancel, is_listening, ub, lastb,
                   ws_vars, history, count_vars>>
    /\ UNCHANGED registry_vars

\* Faulty variant: a _wrap that hands the event on without storing it.
ListenWrapSkipsStore(ok) ==
    /\ listening = "running" /\ ~listen_cancel
    /\ lpc = "wrap"
    /\ ListenGoes(ListenBroadcast(IF ok THEN "event" ELSE "error", lmsg,
                                  subscribers))
    /\ UNCHANGED <<agent_vars, subscribers, listen_cancel, is_listening,
                   ub, lastb, ws_vars, history, count_vars>>
    /\ UNCHANGED registry_vars

\* _wrap's chat_store.add_message("assistant") ends: the message is stored and
\* the event is broadcast, or the store raises and _listen's except clause
\* broadcasts an error payload.
ListenWrap(ok) ==
    /\ listening = "running" /\ ~listen_cancel
    /\ lpc = "wrap"
    /\ IF ok
       THEN /\ history' = Append(history, <<"assistant", lmsg.n>>)
            /\ ListenGoes(ListenBroadcast("event", lmsg, subscribers))
       ELSE /\ UNCHANGED history
            /\ ListenGoes(ListenBroadcast("error", lmsg, subscribers))
    /\ UNCHANGED <<agent_vars, subscribers, listen_cancel, is_listening,
                   ub, lastb, ws_vars, count_vars>>
    /\ UNCHANGED registry_vars

\* The send_json the drain loop's broadcast is suspended in ends, and the
\* loop runs on to the next send or to the end of the call and beyond.
ListenSend(ok) ==
    /\ listening = "running" /\ ~listen_cancel
    /\ lpc \in {"status", "event", "error"}
    /\ SendMay(lb.cur, ok)
    /\ conn' = ConnAfter(lb.cur, ok)
    /\ IF ok THEN Deliver(lb.cur, lb.payload) ELSE UNCHANGED peer_vars
    /\ LET b == BAdvance(BSendDone(lb, ok), subscribers) IN
          /\ subscribers' = SubsAfter(b, subscribers)
          /\ IF b.st = "sending"
             THEN lb' = b /\ UNCHANGED <<lpc, lmsg, listening, lastb>>
             ELSE /\ lastb' = Ended(b, SubsAfter(b, subscribers))
                  /\ ListenGoes(ListenAfter(lpc, b, lmsg, SubsAfter(b, subscribers)))
    /\ UNCHANGED <<agent_vars, listen_cancel, is_listening, ub,
                   hpc, htext, history, count_vars>>
    /\ UNCHANGED registry_vars

\* The cancellation requested by Session.close() reaches the drain task at
\* the await it is suspended in; `except asyncio.CancelledError: pass`.
ListenCancelled ==
    /\ listening = "running" /\ listen_cancel
    /\ listening' = "done"
    /\ listen_cancel' = FALSE
    /\ lpc' = "none"
    /\ lb' = NoBroadcast
    /\ lmsg' = None
    /\ UNCHANGED <<agent_vars, subscribers, is_listening, ub, lastb,
                   ws_vars, history, count_vars>>
    /\ UNCHANGED registry_vars

ListenStep ==
    \/ ListenFirstStep
    \/ ListenCancelledUnstarted
    \/ ListenGet
    \/ \E ok \in BOOLEAN : ListenWrap(ok)
    \/ \E ok \in BOOLEAN : ListenSend(ok)
    \/ ListenCancelled

\* ------------------------------- the detached user_message broadcast tasks
\* The task created by send_message for text t takes its first step.
UserBroadcastStart(t) ==
    /\ ub[t].st = "pending"
    /\ LET b == BStart("user", UserMessagePayload(t), subscribers) IN
       ub' = [ub EXCEPT ![t] = IF b.st = "sending" THEN b ELSE Finished(b)]
    /\ UNCHANGED <<agent_vars, subscribers, listen_vars, lastb,
                   ws_vars, history, count_vars>>
    /\ UNCHANGED registry_vars

\* The send_json that task is suspended in ends. A RuntimeError from the
\* iterator ends the task; nobody awaits it.
UserBroadcastSend(t, ok) ==
    /\ ub[t].st = "sending"
    /\ SendMay(ub[t].cur, ok)
    /\ conn' = ConnAfter(ub[t].cur, ok)
    /\ IF ok THEN Deliver(ub[t].cur, ub[t].payload) ELSE UNCHANGED peer_vars
    /\ LET b == BAdvance(BSendDone(ub[t], ok), subscribers) IN
          /\ subscribers' = SubsAfter(b, subscribers)
          /\ IF b.st = "sending"
             THEN ub' = [ub EXCEPT ![t] = b] /\ UNCHANGED lastb
             ELSE /\ ub' = [ub EXCEPT ![t] = Finished(b)]
                  /\ lastb' = Ended(b, SubsAfter(b, subscribers))
    /\ UNCHANGED <<agent_vars, listen_vars, hpc, htext, history, count_vars>>
    /\ UNCHANGED registry_vars

\* ------------------------------------------------------------ Session.close
SessionClose ==
    /\ nclose < MaxClose
    /\ DoAgentClose
    /\ listen_cancel' = (listen_cancel \/ CloseCancelsListen(listening))
    /\ UNCHANGED <<output_queue, task, prompt_vars,
                   subscribers, listening, is_listening, lpc, lmsg, lb, ub,
                   lastb, ws_vars, history,
                   submitted, nsend, nsub, nyield, emit_vars, ncalls,
                   direct_vars>>
    /\ UNCHANGED registry_vars

\* --------------------------------------------------------- the ws handlers
\* The handler of connection w ends: `finally: s.unsubscribe(websocket)`.
HandlerEnds(w) ==
    /\ hpc' = [hpc EXCEPT ![w] = "ended"]
    /\ conn' = [conn EXCEPT ![w] = "closed"]
    /\ subscribers' = subscribers \ {w}

\* {type: subscribe}: session.subscribe(websocket), then the history is
\* fetched.
WsSubscribe(w) ==
    /\ hpc[w] = "recv" /\ conn[w] = "open"
    /\ nsub < MaxSubs
    /\ nsub' = nsub + 1
    /\ subscribers' = subscribers \cup {w}
    /\ hpc' = [hpc EXCEPT ![w] = "history"]
    /\ UNCHANGED <<agent_vars, listen_vars, ub, lastb, conn, htext, peer_vars,
                   history, submitted, nsend, nyield, nclose, emit_vars,
                   ncalls, direct_vars>>
    /\ UNCHANGED registry_vars

\* get_messages returned and the history reply is sent; a failed send ends
\* the handler.
WsHistory(w, ok) ==
    /\ hpc[w] = "history"
    /\ SendMay(w, ok)
    /\ IF ok
       THEN /\ Deliver(w, Payload("history", Len(history)))
            /\ hpc' = [hpc EXCEPT ![w] = "recv"]
            /\ UNCHANGED <<conn, subscribers>>
       ELSE HandlerEnds(w) /\ UNCHANGED peer_vars
    /\ UNCHANGED <<agent_vars, listen_vars, ub, lastb, htext, history,
                   count_vars>>
    /\ UNCHANGED registry_vars

\* {type: chat}: session.subscribe(websocket), then Session.send_message is
\* called and suspends in chat_store.add_message("user").
WsChat(w) ==
    /\ hpc[w] = "recv" /\ conn[w] = "open"
    /\ nsend < MaxSends
    /\ nsend' = nsend + 1
    /\ subscribers' = subscribers \cup {w}
    /\ hpc' = [hpc EXCEPT ![w] = "persist"]
    /\ htext' = [htext EXCEPT ![w] = nsend + 1]
    /\ UNCHANGED <<agent_vars, listen_vars, ub, lastb, conn, peer_vars,
                   history, submitted, nsub, nyield, nclose, emit_vars,
                   ncalls, direct_vars>>
    /\ UNCHANGED registry_vars

\* Faulty variant: a send_message that hands the text to the agent before it
\* persists it, so that the text is enqueued also when add_message raises.
SendMessageEnqueuesFirst(w, ok) ==
    /\ hpc[w] = "persist"
    /\ DoAgentSend(htext[w])
    /\ IF ok
       THEN /\ history' = Append(history, <<"user", htext[w]>>)
            /\ ub' = [ub EXCEPT ![htext[w]] =
                         [NoBroadcast EXCEPT !.st = "pending", !.by = "user"]]
            /\ listening' = IF ListenCreates(is_listening, listening)
                            THEN "pending" ELSE listening
            /\ nlisten' = IF ListenCreates(is_listening, listening)
                          THEN nlisten + 1 ELSE nlisten
            /\ hpc' = [hpc EXCEPT ![w] = "recv"]
            /\ UNCHANGED <<conn, subscribers>>
       ELSE /\ HandlerEnds(w)
            /\ UNCHANGED <<history, ub, listening, nlisten>>
    /\ htext' = [htext EXCEPT ![w] = 0]
    /\ UNCHANGED <<output_queue, task_cancel, closed, prompt_vars,
                   listen_cancel, is_listening, lpc, lmsg, lb, lastb,
                   peer_vars, bound_vars, emit_vars, direct_vars>>
    /\ UNCHANGED <<sessions, stored, dpc, hsess, second_vars, ndelete,
                   other_vars, yielded>>

\* add_message returned: the user_message broadcast task is created, the text
\* goes to the agent, the drain task is created if there is none. Or
\* add_message raised, which ends the handler.
WsSendMessage(w, ok) ==
    /\ hpc[w] = "persist"
    /\ IF ok
       THEN /\ history' = Append(history, <<"user", htext[w]>>)
            /\ ub' = [ub EXCEPT ![htext[w]] =
                         [NoBroadcast EXCEPT !.st = "pending", !.by = "user"]]
            /\ DoAgentSend(htext[w])
            /\ listening' = IF ListenCreates(is_listening, listening)
                            THEN "pending" ELSE listening
            /\ nlisten' = IF ListenCreates(is_listening, listening)
                          THEN nlisten + 1 ELSE nlisten
            /\ hpc' = [hpc EXCEPT ![w] = "recv"]
            /\ UNCHANGED <<conn, subscribers>>
       ELSE /\ HandlerEnds(w)
            /\ UNCHANGED <<history, ub, input_queue, task, ncalls, submitted,
                           listening, nlisten>>
    /\ htext' = [htext EXCEPT ![w] = 0]
    /\ UNCHANGED <<output_queue, task_cancel, closed, prompt_vars,
                   listen_cancel, is_listening, lpc, lmsg, lb, lastb,
                   peer_vars, bound_vars, emit_vars, direct_vars>>
    /\ UNCHANGED <<sessions, stored, dpc, hsess, second_vars, ndelete,
                   other_vars, yielded>>

\* receive_json raises WebSocketDisconnect: the peer has gone away.
WsDisconnect(w) ==
    /\ hpc[w] = "recv"
    /\ HandlerEnds(w)
    /\ UNCHANGED <<agent_vars, listen_vars, ub, lastb, htext, peer_vars,
                   history, count_vars>>
    /\ UNCHANGED registry_vars

WsStep ==
    \E w \in WS :
        \/ WsSubscribe(w)
        \/ \E ok \in BOOLEAN : WsHistory(w, ok)
        \/ WsChat(w)
        \/ \E ok \in BOOLEAN : WsSendMessage(w, ok)
        \/ WsDisconnect(w)

\* ------------------------------------------------------------------- Init
\* Nothing has happened yet; has_chat tells whether the store holds the chat.
InitChat(has_chat) ==
    /\ input_queue = <<>> /\ output_queue = <<>>
    /\ task = "none" /\ task_cancel = FALSE /\ closed = FALSE
    /\ pstream = "idle" /\ delivered = <<>>
    /\ subscribers = {} /\ listening = "none" /\ listen_cancel = FALSE
    /\ is_listening = FALSE /\ lpc = "none" /\ lmsg = None
    /\ lb = NoBroadcast /\ ub = [t \in Texts |-> NoBroadcast]
    /\ lastb = NoBroadcast
    /\ conn = [w \in WS |-> "open"]
    /\ hpc = [w \in WS |-> "recv"]
    /\ htext = [w \in WS |-> 0]
    /\ last = [w \in WS |-> None]
    /\ seen = [w \in WS |-> 0]
    /\ history = <<>>
    /\ submitted = <<>> /\ nsend = 0 /\ nyield = 0 /\ nemit = 0
    /\ ncalls = 0 /\ nsentinel = 0 /\ nclose = 0 /\ nsub = 0
    /\ consumer = "none" /\ consumed = <<>>
    /\ sessions = 0 /\ stored = has_chat /\ dpc = "idle"
    /\ hsess = [w \in WS |-> 0]
    /\ subscribers2 = {} /\ task2 = "none" /\ listening2 = "none"
    /\ nsend2 = 0 /\ ndelete = 0
    /\ subscribersB = {}
    /\ nlisten = 0
    /\ yielded = <<>>

\* A chat made by create_chat.
Init == InitChat(TRUE)

\* AgentSession used on its own, as src/test.py uses it.
NextAgent ==
    \/ DirectSend
    \/ DirectClose
    \/ ConsumerStart
    \/ ConsumerGet
    \/ AgentStep(AgentMsgs, MaxItems)
    \/ PromptStep

SpecAgent == Init /\ [][NextAgent]_vars

\* The backend: connections, the Session and its AgentSession.
Next ==
    \/ WsStep
    \/ SessionClose
    \/ ListenStep
    \/ \E t \in 1..MaxSends : UserBroadcastStart(t)
    \/ \E t \in 1..MaxSends, ok \in BOOLEAN : UserBroadcastSend(t, ok)
    \/ AgentStep(SessionMsgs, MaxEvents)

Spec == Init /\ [][Next]_vars

\* ------------------------------------------ the registry and the chat store
\* One chat id. The first Session registered under it is the Session of the
\* variables above; of the Session created under the same id after the first
\* was removed, the model keeps the subscriber set and the two tasks; of the
\* Session of another chat id, to which connections only subscribe, the
\* subscriber set.

\* InMemoryChatStore.add_message: `if chat_id not in self._messages: raise`
AddMessageAccepts(has_chat) == has_chat

\* get_session(chat_id): the Session registered under the id, a new one `if
\* chat_id not in sessions`. The first Session is closed exactly when it was
\* removed, so that the new one is then the second.
GetSession(entry, first_closed) ==
    IF entry # 0 THEN entry ELSE IF first_closed THEN 2 ELSE 1

\* What a handler holds for the Session of the other chat id, which is
\* created by the first message that names the id and is never removed.
Other == 3

\* session.subscribe(websocket), session being Session s
Subscribe(s, w) ==
    /\ subscribers' = IF s = 1 THEN subscribers \cup {w} ELSE subscribers
    /\ subscribers2' = IF s = 2 THEN subscribers2 \cup {w} ELSE subscribers2
    /\ subscribersB' = IF s = Other THEN subscribersB \cup {w} ELSE subscribersB

\* Faulty variant: a handler that, when it ends, unsubscribes from the
\* Session it used last only.
EndsUnsubscribingLast(w) ==
    /\ hpc' = [hpc EXCEPT ![w] = "ended"]
    /\ conn' = [conn EXCEPT ![w] = "closed"]
    /\ subscribers' = IF sessions = 1 /\ hsess[w] = 1
                      THEN subscribers \ {w} ELSE subscribers
    /\ subscribers2' = IF sessions = 2 /\ hsess[w] = 2
                       THEN subscribers2 \ {w} ELSE subscribers2
    /\ subscribersB' = IF hsess[w] = Other
                       THEN subscribersB \ {w} ELSE subscribersB

\* The handler of connection w ends:
\* `finally: for s in sessions.values(): s.unsubscribe(websocket)`
RegistryHandlerEnds(w) ==
    /\ hpc' = [hpc EXCEPT ![w] = "ended"]
    /\ conn' = [conn EXCEPT ![w] = "closed"]
    /\ subscribers' = IF sessions = 1 THEN subscribers \ {w} ELSE subscribers
    /\ subscribers2' = IF sessions = 2 THEN subscribers2 \ {w} ELSE subscribers2
    /\ subscribersB' = subscribersB \ {w}

\* {type: subscribe}: get_session, session.subscribe(websocket), then the
\* history is fetched.
RegistrySubscribe(w) ==
    /\ hpc[w] = "recv" /\ conn[w] = "open"
    /\ nsub < MaxSubs
    /\ nsub' = nsub + 1
    /\ sessions' = GetSession(sessions, closed)
    /\ hsess' = [hsess EXCEPT ![w] = sessions']
    /\ Subscribe(sessions', w)
    /\ hpc' = [hpc EXCEPT ![w] = "history"]
    /\ UNCHANGED <<agent_vars, listen_vars, ub, lastb, conn, htext, peer_vars,
                   history, submitted, nsend, nyield, nclose, emit_vars,
                   ncalls, direct_vars,
                   stored, dpc, task2, listening2, nsend2, ndelete,
                   nlisten, yielded>>

\* get_messages returned and the history reply is sent; a failed send ends
\* the handler.
RegistryHistory(w, ok) ==
    /\ hpc[w] = "history"
    /\ SendMay(w, ok)
    /\ IF ok
       THEN /\ Deliver(w, Payload("history", IF hsess[w] = Other THEN 0
                                              ELSE Len(history)))
            /\ hpc' = [hpc EXCEPT ![w] = "recv"]
            /\ UNCHANGED <<conn, subscribers, subscribers2, subscribersB>>
       ELSE RegistryHandlerEnds(w) /\ UNCHANGED peer_vars
    /\ UNCHANGED <<agent_vars, listen_vars, ub, lastb, htext, history,
                   count_vars,
                   sessions, stored, dpc, hsess, task2, listening2, nsend2,
                   ndelete, nlisten, yielded>>

\* {type: subscribe} naming the other chat id.
RegistrySubscribeOther(w) ==
    /\ hpc[w] = "recv" /\ conn[w] = "open"
    /\ nsub < MaxSubs
    /\ nsub' = nsub + 1
    /\ hsess' = [hsess EXCEPT ![w] = Other]
    /\ Subscribe(Other, w)
    /\ hpc' = [hpc EXCEPT ![w] = "history"]
    /\ UNCHANGED <<agent_vars, listen_vars, ub, lastb, conn, htext, peer_vars,
                   history, submitted, nsend, nyield, nclose, emit_vars,
                   ncalls, direct_vars,
                   sessions, stored, dpc, task2, listening2, nsend2, ndelete,
                   nlisten, yielded>>

\* {type: chat}: get_session, session.subscribe(websocket), then
\* Session.send_message is called and suspends in chat_store.add_message.
RegistryChat(w) ==
    /\ hpc[w] = "recv" /\ conn[w] = "open"
    /\ sessions' = GetSession(sessions, closed)
    /\ IF sessions' = 1
       THEN nsend < MaxSends /\ nsend' = nsend + 1 /\ UNCHANGED nsend2
       ELSE nsend2 < MaxSends /\ nsend2' = nsend2 + 1 /\ UNCHANGED nsend
    /\ hsess' = [hsess EXCEPT ![w] = sessions']
    /\ Subscribe(sessions', w)
    /\ hpc' = [hpc EXCEPT ![w] = "persist"]
    /\ htext' = [htext EXCEPT ![w] = nsend + nsend2 + 1]
    /\ UNCHANGED <<agent_vars, listen_vars, ub, lastb, conn, peer_vars,
                   history, submitted, nsub, nyield, nclose, emit_vars,
                   ncalls, direct_vars,
                   stored, dpc, task2, listening2, ndelete, nlisten, yielded>>

\* Session.send_message on the second Session, after add_message returned:
\* agent.send_message starts the agent task, the drain task is created.
SecondSendMessage ==
    /\ task2' = IF StartCreates(task2) THEN "pending" ELSE task2
    /\ listening2' = IF ListenCreates(FALSE, listening2)
                     THEN "pending" ELSE listening2

\* add_message returned and Session.send_message goes on, on the Session the
\* handler got from get_session. Or add_message raised, which ends the
\* handler.
RegistrySendMessage(w, ok) ==
    /\ hpc[w] = "persist"
    /\ ok => AddMessageAccepts(stored)
    /\ IF ok
       THEN /\ history' = Append(history, <<"user", htext[w]>>)
            /\ IF hsess[w] = 1
               THEN /\ ub' = [ub EXCEPT ![htext[w]] =
                         [NoBroadcast EXCEPT !.st = "pending", !.by = "user"]]
                    /\ DoAgentSend(htext[w])
                    /\ listening' = IF ListenCreates(is_listening, listening)
                                    THEN "pending" ELSE listening
                    /\ nlisten' = IF ListenCreates(is_listening, listening)
                                  THEN nlisten + 1 ELSE nlisten
                    /\ UNCHANGED <<task2, listening2>>
               ELSE /\ SecondSendMessage
                    /\ UNCHANGED <<ub, input_queue, task, ncalls, submitted,
                                   listening, nlisten>>
            /\ hpc' = [hpc EXCEPT ![w] = "recv"]
            /\ UNCHANGED <<conn, subscribers, subscribers2, subscribersB>>
       ELSE /\ RegistryHandlerEnds(w)
            /\ UNCHANGED <<history, ub, input_queue, task, ncalls, submitted,
                           listening, task2, listening2, nlisten>>
    /\ htext' = [htext EXCEPT ![w] = 0]
    /\ UNCHANGED <<output_queue, task_cancel, closed, prompt_vars,
                   listen_cancel, is_listening, lpc, lmsg, lb, lastb,
                   peer_vars, bound_vars, emit_vars, direct_vars,
                   sessions, stored, dpc, hsess, nsend2, ndelete, yielded>>

\* A message whose type is neither subscribe nor chat: the handler is
\* suspended in the send_json of its error reply.
RegistryInvalid(w) ==
    /\ hpc[w] = "recv" /\ conn[w] = "open"
    /\ hpc' = [hpc EXCEPT ![w] = "reply"]
    /\ UNCHANGED <<agent_vars, session_vars, conn, htext, peer_vars, history,
                   count_vars, registry_vars>>

\* That send_json ends: the reply reaches the peer and the handler is back
\* at receive_json, or the send raises, which ends the handler.
RegistryReply(w, ok) ==
    /\ hpc[w] = "reply"
    /\ SendMay(w, ok)
    /\ IF ok
       THEN /\ Deliver(w, InvalidFormatPayload)
            /\ hpc' = [hpc EXCEPT ![w] = "recv"]
            /\ UNCHANGED <<conn, subscribers, subscribers2, subscribersB>>
       ELSE RegistryHandlerEnds(w) /\ UNCHANGED peer_vars
    /\ UNCHANGED <<agent_vars, listen_vars, ub, lastb, htext, history,
                   count_vars,
                   sessions, stored, dpc, hsess, task2, listening2, nsend2,
                   ndelete, nlisten, yielded>>

\* receive_json raises WebSocketDisconnect: the peer has gone away.
RegistryDisconnect(w) ==
    /\ hpc[w] = "recv"
    /\ RegistryHandlerEnds(w)
    /\ UNCHANGED <<agent_vars, listen_vars, ub, lastb, htext, peer_vars,
                   history, count_vars,
                   sessions, stored, dpc, hsess, task2, listening2, nsend2,
                   ndelete, nlisten, yielded>>

RegistryWsStep ==
    \E w \in WS :
        \/ RegistrySubscribe(w)
        \/ RegistrySubscribeOther(w)
        \/ \E ok \in BOOLEAN : RegistryHistory(w, ok)
        \/ RegistryChat(w)
        \/ \E ok \in BOOLEAN : RegistrySendMessage(w, ok)
        \/ RegistryInvalid(w)
        \/ \E ok \in BOOLEAN : RegistryReply(w, ok)
        \/ RegistryDisconnect(w)

\* DELETE /api/chats/{chat_id}: the store has carried out
\* chat_store.delete_chat (InMemoryChatStore: the chat and its messages are
\* popped, the answer is whether the chat was there).
DeleteCall ==
    /\ ndelete < MaxDelete /\ dpc = "idle"
    /\ ndelete' = ndelete + 1
    /\ dpc' = IF stored THEN "found" ELSE "missing"
    /\ stored' = FALSE
    /\ history' = <<>>
    /\ UNCHANGED <<agent_vars, session_vars, ws_vars, count_vars,
                   sessions, hsess, second_vars, other_vars, nlisten, yielded>>

\* delete_chat goes on with the store's answer: `raise HTTPException(404)`, or
\* `if chat_id in sessions: sessions[chat_id].close(); del sessions[chat_id]`.
\* The store finds the chat only while the first Session, or none, is
\* registered.
DeleteReturn ==
    /\ dpc # "idle"
    /\ dpc' = "idle"
    /\ IF dpc = "found"
       THEN /\ sessions' = 0
            /\ IF sessions = 1
               THEN /\ DoAgentClose
                    /\ listen_cancel' =
                           (listen_cancel \/ CloseCancelsListen(listening))
               ELSE UNCHANGED <<closed, input_queue, task_cancel, nclose,
                                listen_cancel>>
       ELSE UNCHANGED <<sessions, closed, input_queue, task_cancel, nclose,
                        listen_cancel>>
    /\ UNCHANGED <<output_queue, task, prompt_vars,
                   subscribers, listening, is_listening, lpc, lmsg, lb, ub,
                   lastb, ws_vars, history,
                   submitted, nsend, nsub, nyield, emit_vars, ncalls,
                   direct_vars,
                   stored, hsess, second_vars, ndelete, other_vars,
                   nlisten, yielded>>

\* The registry under the ws handlers and delete_chat, for a chat the store
\* holds or does not hold at the start. The drain loop, which has no part in
\* the registry, takes its steps in Spec.
InitRegistry == \E has_chat \in BOOLEAN : InitChat(has_chat)

NextRegistry ==
    \/ RegistryWsStep
    \/ DeleteCall
    \/ DeleteReturn
    \/ \E t \in 1..MaxSends : UserBroadcastStart(t)
    \/ \E t \in 1..MaxSends, ok \in BOOLEAN : UserBroadcastSend(t, ok)
    \/ AgentStep(SessionMsgs, MaxEvents)

SpecRegistry == InitRegistry /\ [][NextRegistry]_vars

\* ================================================================ claims
\* The texts waiting in the input queue, in queue order.
QueueTexts(q) == SelectSeq(q, LAMBDA x : x # None)
TextNumbers(q) == [i \in 1..Len(q) |-> q[i].n]

\* C1: the prompt stream yields the submitted texts to the agent call in the
\* submission order, each exactly once: what has been yielded, followed by
\* what still waits in the input queue, is always exactly what was submitted,
\* whether the texts were submitted before or after the task's first step.
C1_PromptsFifo ==
    delivered \o TextNumbers(QueueTexts(input_queue)) = submitted

\* C1 witness: two texts were submitted to an open session and the prompt
\* stream has yielded both.
C1_Witness == delivered = <<1, 2>> /\ ~closed /\ task = "running"

\* C2: a subscriber receives the agent's events from the drain loop in the
\* order of emission: an agent event that reaches a peer is always numbered
\* higher than every agent event that peer received before.
C2_EmissionOrder ==
    [][\A w \in WS :
         (last'[w] # last[w] /\ last'[w].type \in AgentEventTypes)
            => last'[w].n > seen[w]]_vars

\* C2 witness: a registered subscriber has received the second event of an
\* item after the first one was persisted and broadcast.
C2_Witness ==
    \E w \in WS : /\ w \in subscribers
                  /\ last[w].type = "tool_use" /\ last[w].n = 2
                  /\ history # <<>> /\ history[Len(history)] = <<"assistant", 1>>

\* C3: whatever the number and interleaving of start(), send_message() and
\* get_output_stream() calls, at most one _run_query task is ever created.
C3_AtMostOneTask == ncalls <= 1

\* C3 witness: start() has been reached three times (two send_message calls
\* and a get_output_stream loop), the task created by the first has ended.
C3_Witness == nsend = 2 /\ consumer # "none" /\ task = "done" /\ ncalls = 1

\* C4: whenever the agent task has ended, for whatever reason, exactly one
\* end-of-stream sentinel has been put on the output queue.
C4_OneSentinelAtEnd == task = "done" => nsentinel = 1

\* C5: once close() has been called, no error event is put on the output
\* queue and none reaches a subscriber: every error event in the queue after
\* a step was in it before, and no peer newly receives an error payload.
C5_NoErrorAfterClose ==
    [][closed =>
         /\ \A i \in 1..Len(output_queue') :
               output_queue'[i].type = "error"
                  => \E j \in 1..Len(output_queue) : output_queue[j] = output_queue'[i]
         /\ \A w \in WS : last'[w].type = "error" => last'[w] = last[w]]_vars

\* C5 witness: close() was called while the agent call was in flight and a
\* subscriber is registered; the cancellation is on its way to the task.
C5_Witness ==
    closed /\ task = "running" /\ task_cancel /\ subscribers # {}

\* asyncio runs every task that is ready, and cancel() makes the task it is
\* called on ready: the delivery of a requested cancellation is a step the
\* loop always gets to. Nothing is assumed of the peers, of the store or of
\* the agent call's own progress.
Fairness ==
    /\ WF_vars(AgentCancelledUnstarted)
    /\ WF_vars(\E outcome \in {"cancelled", "exception"} : AgentCancelled(outcome))
    /\ WF_vars(ListenCancelledUnstarted)
    /\ WF_vars(ListenCancelled)

SpecFair == Init /\ [][Next]_vars /\ Fairness

\* C6: when Session.close() is called while the agent call is suspended
\* awaiting its next event, the agent task and the drain loop task both
\* finish eventually.
C6_CloseTerminates ==
    (closed /\ task = "running" /\ task_cancel)
        ~> (task = "done" /\ listening = "done")

\* C6 witness: close() has been called with the agent task suspended in the
\* call and the drain loop suspended on the output queue.
C6_Witness ==
    /\ closed /\ task = "running" /\ task_cancel
    /\ listening = "running" /\ lpc = "get" /\ listen_cancel

\* C7: close() enqueues the close-sentinel exactly once however often it is
\* called: the input queue never holds more than one close-sentinel.
C7_CloseSentinelOnce ==
    Len(SelectSeq(input_queue, LAMBDA x : x = None)) <= 1

\* C8: a tool_use event reaches a peer only immediately after the
\* agent_status event derived from the same tool name: the payload the peer
\* received last before it is that status. (A history reply, which the
\* connection's own handler sends and no broadcast does, is let pass.)
C8_StatusBeforeToolUse ==
    [][\A w \in WS :
         (last'[w] # last[w] /\ last'[w].type = "tool_use"
                             /\ last[w].type # "history")
            => /\ last[w].type = "agent_status"
               /\ last[w].message = AgentStatusMessage(last'[w].toolName)]_vars

\* C9: in a _broadcast call in which a send failed, the failed subscriber is
\* removed from the live set and every other subscriber that is still
\* registered had the delivery of the payload attempted.
C9_FailedSinkIsolated ==
    lastb.dead # {}
        => /\ lastb.dead \cap lastb.left = {}
           /\ (lastb.start \cap lastb.left) \subseteq lastb.tried

\* C10: a broadcast of the drain loop is never aborted by a change of the
\* subscriber set: it returns, having attempted the delivery to every
\* subscriber that was registered when it started and still is.
C10_BroadcastSurvivesMutation ==
    lastb.by = "listen"
        => /\ lastb.st = "returned"
           /\ (lastb.start \cap lastb.left) \subseteq lastb.tried

\* C11: a connection that has sent `subscribe` receives the history snapshot
\* before any live event: while its handler has the history reply still to
\* send, the only payload that reaches a peer that has received nothing so
\* far is that reply.
C11_HistoryFirst ==
    [][\A w \in WS :
         (hpc[w] = "history" /\ last[w] = None /\ last'[w] # last[w])
            => last'[w].type = "history"]_vars

\* C12: the user_message of a text reaches a subscriber before the agent's
\* events that answer the text: when a user_message is delivered to a peer,
\* that peer has received no agent event yet (every agent event of a run is
\* emitted after the run's first text was handed to the agent).
C12_UserMessageFirst ==
    [][\A w \in WS :
         (last'[w] # last[w] /\ last'[w].type = "user_message" /\ last'[w].n = 1)
            => seen[w] = 0]_vars

\* The output stream of an AgentSession read directly: what the consumer has
\* taken, followed by what is still on the output queue.
Emitted == consumed \o output_queue

\* C13: the output stream never carries both a result event and an error
\* event.
C13_ResultXorError ==
    ~ \E i, j \in 1..Len(Emitted) :
          Emitted[i].type = "result" /\ Emitted[j].type = "error"

\* C14: the error event of an agent call that failed on a session that is not
\* closed is broadcast: the drain loop of such a session never ends while the
\* error event is on the output queue, with nobody left to take it to the
\* registered subscribers.
C14_AgentErrorBroadcast ==
    (~closed /\ listening = "done" /\ subscribers # {})
        => \A i \in 1..Len(output_queue) : output_queue[i].type # "error"

\* C15: once the session is closed, a send_message call starts no agent call:
\* no step that hands a text to send_message while _closed is set creates a
\* _run_query task.
C15_NoCallAfterClose ==
    [][(closed /\ nsend' # nsend) => ncalls' = ncalls]_vars

\* C16: close() drops no text that was pending: once the prompt stream is over
\* (it has ended, or the task that drives the agent call is done), the input
\* queue holds no text ahead of a close-sentinel.
C16_PendingTextsYielded ==
    (pstream = "ended" \/ task = "done")
        => ~ \E i, j \in 1..Len(input_queue) :
                 i < j /\ input_queue[i] # None /\ input_queue[j] = None

\* C17: after an agent-call error has ended the stream of a session that is
\* not closed, a later send_message leaves an agent call in place again: the
\* step that hands it the text finds or makes a task that is not done.
C17_RestartAfterError ==
    [][(/\ ~closed /\ task = "done"
        /\ \E i \in 1..Len(Emitted) : Emitted[i].type = "error"
        /\ nsend' # nsend)
          => task' \in {"pending", "running"}]_vars

\* C19: when a delete_chat call has returned or raised, the registry has no
\* entry for the chat id, whatever the store answered: the step in which
\* delete_chat ends leaves `sessions` without the id.
C19_DeleteRemovesEntry ==
    [][(dpc # "idle" /\ dpc' = "idle") => sessions' = 0]_vars

\* A Session whose agent task or drain task is created and not finished.
FirstUnfinished ==
    task \in {"pending", "running"} \/ listening \in {"pending", "running"}
SecondUnfinished ==
    task2 \in {"pending", "running"} \/ listening2 \in {"pending", "running"}

C20_ClearedOnDelete ==
    [][closed' =>
          /\ subscribers' = {}
          /\ closed => \A w \in WS :
                          last'[w] # last[w] => last'[w].type = "history"]_vars

\* ------------------------------------------ persistence of assistant text
\* An item whose text block comes after a tool use: the drain loop has two
\* broadcasts to make before it takes the assistant_message.
PersistMsgs == { AssistantMessage(<<ToolUseBlock("Bash"), TextBlock>>) }

\* The backend with the agent call yielding such items.
NextPersist ==
    \/ WsStep
    \/ SessionClose
    \/ ListenStep
    \/ \E t \in 1..MaxSends : UserBroadcastStart(t)
    \/ \E t \in 1..MaxSends, ok \in BOOLEAN : UserBroadcastSend(t, ok)
    \/ AgentStep(PersistMsgs, MaxEvents)

\* The loop runs the drain task whenever it is ready (created, or suspended on
\* a queue that holds an item), and the store answers every add_message, with
\* the message stored or with an exception. Nothing is assumed of the peers:
\* a send_json may stay suspended for ever.
FairnessPersist ==
    /\ Fairness
    /\ WF_vars(ListenFirstStep)
    /\ WF_vars(ListenGet)
    /\ WF_vars(\E ok \in BOOLEAN : ListenWrap(ok))

SpecPersist == Init /\ [][NextPersist]_vars /\ FairnessPersist

\* An assistant_message the agent driver has emitted waits on the output
\* queue for the drain loop to take and persist it.
AssistantWaiting ==
    \E i \in 1..Len(output_queue) : output_queue[i].type = "assistant_message"

\* C21: whatever the subscribers' sends do, an emitted assistant_message is
\* eventually handed to the store (or the session is closed): it does not
\* wait for ever behind a send to a subscriber.
C21_PersistenceIndependent ==
    AssistantWaiting ~> (~AssistantWaiting \/ closed)

\* ----------------------------------------------- one handle, several chats
\* C22: a subscriber handle is registered against at most one conversation at
\* any time: whatever subscribe and chat messages a connection has sent, its
\* handle is in the subscriber set of at most one Session.
C22_OneConversationPerHandle ==
    \A w \in WS : ~(w \in subscribersB /\ w \in subscribers \cup subscribers2)

\* ------------------------------------------- delivery failures stay silent
\* C23: a send that fails in a broadcast is never surfaced as an `error`
\* event: when a broadcast of the drain loop ends and the drain loop turns to
\* broadcasting an error payload, no send of that broadcast had failed.
C23_FailureNotSurfaced ==
    [][(lpc \in {"status", "event"} /\ lpc' = "error") => lastb'.dead = {}]_vars

\* ---------------------------------------------------------- input errors
\* The handler of w has replied {type: error} to w alone and goes on: it is
\* back at receive_json, no other peer received anything, and w is in the
\* subscriber sets it was in.
Reported(w) ==
    /\ hpc'[w] = "recv"
    /\ last'[w].type = "error"
    /\ \A v \in WS \ {w} : last'[v] = last[v]
    /\ (w \in subscribers') = (w \in subscribers)
    /\ (w \in subscribers2') = (w \in subscribers2)
    /\ (w \in subscribersB') = (w \in subscribersB)

\* C24: an input error is reported to the sending connection only and is
\* not fatal: the reply to a message of unknown type, once sent, and the end
\* of a chat message that names a conversation the store does not know, give
\* the sender an error payload, nothing to any other connection, and leave
\* the handler receiving with its subscriptions as they were.
C24_InputErrorReported ==
    [][\A w \in WS :
         /\ (hpc[w] = "reply" /\ hpc'[w] = "recv") => Reported(w)
         /\ (hpc[w] = "persist" /\ ~stored /\ conn[w] = "open"
               /\ hpc'[w] # "persist") => Reported(w)]_vars

\* ------------------------------------------------ failures stay in a chat
\* A step in which something fails in the conversation of the first chat id:
\* add_message raises in send_message, the Session is closed, the agent call
\* raises (the driver emits an error event), or a send of a broadcast fails.
FailureInA ==
    \/ \E w \in WS : hpc[w] = "persist" /\ hpc'[w] = "ended"
    \/ ~closed /\ closed'
    \/ /\ Len(output_queue') = Len(output_queue) + 1
       /\ output_queue'[Len(output_queue')].type = "error"
    \/ \E t \in 1..MaxSends :
          ub[t].st = "sending" /\ ub'[t] # ub[t] /\ conn' # conn

\* C25: failures are local to their conversation: a step in which something
\* fails in one conversation leaves the subscriber set of the Session of
\* another conversation as it was.
C25_FailuresLocal ==
    [][FailureInA => subscribersB' = subscribersB]_vars

\* -------------------------------------------- overlapping send_message calls
\* {type: chat} as in WsChat, with room for calls of several connections
\* that are suspended in chat_store.add_message at the same time.
OverlapChat(w) ==
    /\ hpc[w] = "recv" /\ conn[w] = "open"
    /\ nsend < MaxOverlap
    /\ nsend' = nsend + 1
    /\ subscribers' = subscribers \cup {w}
    /\ hpc' = [hpc EXCEPT ![w] = "persist"]
    /\ htext' = [htext EXCEPT ![w] = nsend + 1]
    /\ UNCHANGED <<agent_vars, listen_vars, ub, lastb, conn, peer_vars,
                   history, submitted, nsub, nyield, nclose, emit_vars,
                   ncalls, direct_vars>>
    /\ UNCHANGED registry_vars

NextOverlap ==
    \/ \E w \in WS : OverlapChat(w)
    \/ \E w \in WS, ok \in BOOLEAN : WsSendMessage(w, ok)
    \/ \E t \in Texts : UserBroadcastStart(t)
    \/ \E t \in Texts, ok \in BOOLEAN : UserBroadcastSend(t, ok)
    \/ ListenStep
    \/ AgentStep(SessionMsgs, MaxEvents)
    \/ SessionClose

SpecOverlap == Init /\ [][NextOverlap]_vars

\* C26: the drain loop runs at most once per conversation: however the
\* send_message calls interleave, several of them suspended in the
\* persistence call at once included, at most one _listen task is ever
\* created, so one task alone takes the events off the output queue.
C26_OneDrainLoop ==
    /\ nlisten <= 1
    /\ listening # "none" => nlisten = 1

\* C26 witness: two send_message calls overlapped (the call that came second
\* was the first to go on after add_message) and the drain task exists.
C26_Witness ==
    /\ submitted = <<2, 1>>
    /\ nlisten = 1
    /\ listening = "running"

\* ------------------------------------------- classification of the items
\* Items for the classification: blocks of every kind in one message, both
\* outcomes of a terminal result, an item of another kind.
ClassifyMsgs ==
    { AssistantMessage(<<TextBlock, OtherBlock, ToolUseBlock("Read")>>),
      AssistantMessage(<<ToolUseBlock("Bash"), TextBlock>>),
      ResultMessage(FALSE),
      ResultMessage(TRUE),
      OtherMessage }

NextClassify ==
    \/ DirectSend
    \/ DirectClose
    \/ ConsumerStart
    \/ ConsumerGet
    \/ AgentStep(ClassifyMsgs, MaxItems)
    \/ PromptStep

SpecClassify == Init /\ [][NextClassify]_vars

\* The event a block of an assistant message stands for.
BlockEvent(blk) ==
    IF blk.b = "text" THEN Payload("assistant_message", 0)
    ELSE [Payload("tool_use", 0) EXCEPT !.toolName = blk.name]

\* The events one item stands for: one per text or tool-use block, in the
\* order of the blocks, one for a terminal result, none for anything else.
ItemEvents(item) ==
    IF item.kind = "assistant"
    THEN LET kept == SelectSeq(item.blocks, LAMBDA b : b.b \in {"text", "tool"})
         IN [i \in 1..Len(kept) |-> BlockEvent(kept[i])]
    ELSE IF item.kind = "result"
    THEN <<[Payload("result", 0) EXCEPT !.success = (item.is_error = FALSE)]>>
    ELSE <<>>

RECURSIVE ItemsEvents(_)
ItemsEvents(items) ==
    IF items = <<>> THEN <<>>
    ELSE ItemEvents(Head(items)) \o ItemsEvents(Tail(items))

\* Events numbered in their order.
Numbered(evs) == [i \in 1..Len(evs) |-> [evs[i] EXCEPT !.n = i]]

\* The classified events on the output stream, without the error event and
\* the end-of-stream sentinels.
Classified == SelectSeq(Emitted, LAMBDA e : e.type \in AgentEventTypes)

\* C27: the events the agent driver has emitted are the classification of
\* the items the agent call has yielded while the session was open: one
\* assistant_message per text block, one tool_use with its name per tool-use
\* block, one result with success = not is_error per terminal result, in the
\* order of the items and of the blocks; every other item or block gives
\* nothing and does not end the loop.
C27_EventsClassifyItems ==
    Classified = Numbered(ItemsEvents(yielded))

\* C27 witness: a message with a text block, a block of another kind and a
\* tool use, then a failed terminal result, were yielded and classified.
C27_Witness ==
    /\ yielded = <<AssistantMessage(<<TextBlock, OtherBlock, ToolUseBlock("Read")>>),
                   ResultMessage(TRUE)>>
    /\ Len(Classified) = 3
    /\ Classified[3].type = "result" /\ ~Classified[3].success

\* ------------------------------------------- order of overlapping messages
\* The texts of the user rows of h, in the order of the rows.
UserTexts(h) ==
    LET u == SelectSeq(h, LAMBDA r : r[1] = "user")
    IN [i \in 1..Len(u) |-> u[i][2]]

RECURSIVE Ascending(_)
Ascending(S) ==
    IF S = {} THEN <<>> ELSE <<Min(S)>> \o Ascending(S \ {Min(S)})

\* PostgresChatStore: add_message takes `now` when it is called, before its
\* first await, and get_messages gives the rows ORDER BY timestamp. Texts are
\* numbered in the order send_message is called with them, so the rows come
\* in the order of the numbers.
OrderByTimestamp(texts) == Ascending({texts[i] : i \in 1..Len(texts)})

\* C28: with overlapping send_message calls the user texts appear in the
\* persisted history in the order in which they are enqueued for the agent
\* call.
C28_HistoryOrderIsEnqueueOrder ==
    OrderByTimestamp(UserTexts(history)) = submitted

\* ------------------------------------------------- a failed persistence
\* C29: when persisting the user message fails in Session.send_message the
\* call does nothing else: no user_message broadcast task is created, the
\* text is not enqueued, no agent task and no drain task is created, the
\* queues and the history are as before and nothing reaches a peer. The
\* exception then ends the ws handler that made the call, whose `finally`
\* takes that handler's own handle, and no other, out of the subscriber set.
C29_FailedPersistNoEffect ==
    [][\A w \in WS :
         (hpc[w] = "persist" /\ hpc'[w] = "ended")
            => /\ ub' = ub /\ lb' = lb
               /\ input_queue' = input_queue /\ output_queue' = output_queue
               /\ submitted' = submitted /\ history' = history
               /\ task' = task /\ ncalls' = ncalls
               /\ listening' = listening /\ nlisten' = nlisten
               /\ is_listening' = is_listening
               /\ last' = last
               /\ subscribers' = subscribers \ {w}]_vars

\* C29 witness: the send_message call of a chat message has ended in a
\* failure of add_message while another connection was subscribed: nothing
\* was enqueued or stored, no task exists, the other subscriber is still
\* registered.
C29_Witness ==
    \E w, v \in WS :
        /\ nsend = 1 /\ hpc[w] = "ended" /\ hpc[v] = "recv"
        /\ submitted = <<>> /\ history = <<>>
        /\ task = "none" /\ listening = "none" /\ nlisten = 0
        /\ subscribers = {v}

\* ------------------------------------------- persistence before delivery
\* C30: an assistant_message that a peer has received from the drain loop is
\* already in the conversation history under role "assistant", and no
\* assistant_message is in the history twice.
C30_StoredBeforeDelivered ==
    /\ \A w \in WS :
          last[w].type = "assistant_message"
             => \E i \in 1..Len(history) : history[i] = <<"assistant", last[w].n>>
    /\ \A i, j \in 1..Len(history) :
          (history[i][1] = "assistant" /\ history[i] = history[j]) => i = j

\* C30 witness: both connections are subscribers and have received the
\* assistant_message, which is in the history.
C30_Witness ==
    /\ \A w \in WS : w \in subscribers /\ last[w].type = "assistant_message"
    /\ \E i \in 1..Len(history) : history[i][1] = "assistant"

\* ------------------------------------ a failed persistence in the drain loop
\* The step in which _wrap's add_message raises in the drain loop.
WrapFails ==
    lpc = "wrap" /\ ~listen_cancel /\ lpc' # "wrap" /\ history' = history

\* C31: when persisting an assistant_message raises in the drain loop, the
\* loop makes one broadcast of an error payload to the subscribers of that
\* moment and then ends: the broadcast begins with the failure, when it ends
\* every subscriber it began with that is still registered has been tried
\* and the loop is over, and from the failure on no peer receives an agent
\* event.
C31_PersistFailureEndsLoop ==
    [][/\ WrapFails =>
             IF subscribers = {} THEN listening' = "done"
             ELSE /\ lpc' = "error" /\ lb'.payload = ListenErrorPayload
                  /\ lb'.start = subscribers
       /\ (lpc = "error" /\ ~listen_cancel /\ lpc' # "error")
             => /\ listening' = "done"
                /\ (lastb'.start \cap lastb'.left) \subseteq lastb'.tried
       /\ (lpc = "error" \/ listening = "done")
             => \A w \in WS : last'[w] # last[w]
                                 => last'[w].type \notin AgentEventTypes]_vars

\* ------------------------------------------------ the end of a ws handler
\* The handles in the subscriber sets of the Sessions that are in the
\* registry: the one registered under the first chat id, if any, and the one
\* of the other chat id.
RegisteredSubscribers ==
    (IF sessions = 1 THEN subscribers
     ELSE IF sessions = 2 THEN subscribers2 ELSE {}) \cup subscribersB

\* C32: when the handler of a connection ends, by a disconnect or by an
\* exception raised while it handles a message, its handle leaves the
\* subscriber set of every Session in the registry and the handles of the
\* other connections stay where they are; no Session in the registry holds
\* the handle of a connection whose handler has ended.
C32_EndedHandlerUnsubscribed ==
    [][\A w \in WS :
         hpc'[w] = "ended"
            => /\ w \notin RegisteredSubscribers'
               /\ hpc[w] # "ended"
                     => /\ subscribers' \ {w} = subscribers \ {w}
                        /\ subscribers2' \ {w} = subscribers2 \ {w}
                        /\ subscribersB' \ {w} = subscribersB \ {w}]_vars

\* C32 witness: the handler of a connection that had subscribed to the other
\* chat id has ended and its handle has left that Session; the connection
\* that sent a chat message for the first chat id is still subscribed to the
\* registered Session.
C32_Witness ==
    \E w, v \in WS :
        /\ hpc[w] = "ended" /\ hsess[w] = Other /\ subscribersB = {}
        /\ hpc[v] = "recv" /\ hsess[v] = 1 /\ sessions = 1
        /\ subscribers = {v}

====
